---------------------------- MODULE Spec2Model ----------------------------
(***************************************************************************)
(* A model of the kimi crate (src/src/lib.rs): the line reconstructor      *)
(* construct_lines, the category parser parse_categories, the first        *)
(* category normalizer normalize_first_category, the two column combiner   *)
(* parse_two_columns and the CategoryTree with its insert.                 *)
(*                                                                         *)
(* A Rust String is a sequence of characters; a character is a one-token   *)
(* string.  The Chinese characters the heuristics name are written as      *)
(* ASCII tokens (their code points are given where they are defined).      *)
(* An Option is a sequence of length 0 (None) or 1 (Some).                 *)
(***************************************************************************)
EXTENDS Naturals, Sequences, FiniteSets

VARIABLES
    pc,             \* the step the driver of the function under study is at
    text,           \* construct_lines: the argument
    result,         \* construct_lines: the returned Vec<String>
    again,          \* construct_lines applied to its own output, joined by '\n'
    cell_first,     \* parse_two_columns: first argument
    cell_second,    \* parse_two_columns: second argument
    handed,         \* parse_two_columns: the chunks given to parse_categories
    chunks,         \* parse_categories: the argument
    categories,     \* parse_categories: the returned Vec<Category>
    ntext,          \* normalize_first_category: the argument
    normalized,     \* normalize_first_category: the returned Option<String>
    tree,           \* the CategoryTree under construction
    log             \* the insert calls made so far: <<id, category, caller>>

vars == <<pc, text, result, again, cell_first, cell_second, handed,
          chunks, categories, ntext, normalized, tree, log>>

linesVars == <<text, result, again>>
colsVars  == <<cell_first, cell_second, handed>>
parseVars == <<chunks, categories>>
normVars  == <<ntext, normalized>>
treeVars  == <<tree, log>>

(***************************************************************************)
(* Characters.                                                             *)
(***************************************************************************)
SP  == " "
TAB == "\t"     \* stands for every whitespace character other than ' ' and '\n'
NL  == "\n"

ZE    == "ze"       \* U+8D23
REN   == "ren"      \* U+4EBA
YUAN  == "yuan"     \* U+5458
HU    == "hu"       \* U+62A4
SHI4  == "shi4"     \* U+58EB
ZHI   == "zhi"      \* U+5236
PIAN  == "pian"     \* U+7247
SHI   == "shi"      \* U+5E08
GUAN  == "guan"     \* U+5B98
LV    == "lv"       \* U+5F8B
YI    == "yi"       \* U+533B
SHENG == "sheng"    \* U+751F
GU    == "gu"       \* U+987E
WEN   == "wen"      \* U+95EE
JIAO  == "jiao"     \* U+6559
JING  == "jing"     \* U+8B66
CHA   == "cha"      \* U+5BDF
JING1 == "jing1"    \* U+7ECF
LI    == "li"       \* U+7406
DONG  == "dong"     \* U+8463
SHI_  == "shi_"     \* U+4E8B
GONG  == "gong"     \* U+5DE5
JI    == "ji"       \* U+6280
SHU   == "shu"      \* U+672F

IsWhitespace(c) == c \in {SP, TAB, NL}

IsDigit(c) == c \in {"0", "1", "2", "3", "4", "5", "6", "7", "8", "9"}

(***************************************************************************)
(* String operations of the standard library, as the code uses them.       *)
(***************************************************************************)
None == <<>>
Some(x) == <<x>>

Min(a, b) == IF a <= b THEN a ELSE b

RECURSIVE Concat(_)
Concat(ss) == IF ss = <<>> THEN <<>> ELSE Head(ss) \o Concat(Tail(ss))

RECURSIVE Join(_, _)
Join(ss, sep) ==
    IF ss = <<>> THEN <<>>
    ELSE IF Len(ss) = 1 THEN Head(ss)
    ELSE Head(ss) \o sep \o Join(Tail(ss), sep)

EndsWith(s, suf) ==
    /\ Len(suf) <= Len(s)
    /\ SubSeq(s, Len(s) - Len(suf) + 1, Len(s)) = suf

Contains(s, sub) ==
    \E k \in 0..Len(s) :
        /\ k + Len(sub) <= Len(s)
        /\ SubSeq(s, k + 1, k + Len(sub)) = sub

CountChar(s, c) == Cardinality({k \in 1..Len(s) : s[k] = c})

RemoveChar(s, c) == SelectSeq(s, LAMBDA x : x # c)

RECURSIVE TrimStart(_)
TrimStart(s) ==
    IF s # <<>> /\ IsWhitespace(Head(s)) THEN TrimStart(Tail(s)) ELSE s

RECURSIVE TrimEnd(_)
TrimEnd(s) ==
    IF s # <<>> /\ IsWhitespace(s[Len(s)])
    THEN TrimEnd(SubSeq(s, 1, Len(s) - 1)) ELSE s

Trim(s) == TrimEnd(TrimStart(s))

\* str::lines(): the pieces ended by '\n', and the rest when it is not empty.
RECURSIVE LinesFrom(_, _, _)
LinesFrom(s, cur, acc) ==
    IF s = <<>> THEN (IF cur # <<>> THEN Append(acc, cur) ELSE acc)
    ELSE IF Head(s) = NL THEN LinesFrom(Tail(s), <<>>, Append(acc, cur))
    ELSE LinesFrom(Tail(s), Append(cur, Head(s)), acc)

Lines(s) == LinesFrom(s, <<>>, <<>>)

(***************************************************************************)
(* construct_lines.                                                        *)
(***************************************************************************)
\* l.chars().filter(|c| !c.is_whitespace()).collect()
FilterWhitespace(l) == SelectSeq(l, LAMBDA c : ~IsWhitespace(c))

FilteredLines(t) ==
    LET ls == Lines(t) IN [k \in 1..Len(ls) |-> FilterWhitespace(ls[k])]

DenoiseFirstOnly(l) ==
    LET drop(s, c) ==
            IF \E k \in 1..Len(s) : s[k] = c
            THEN LET k == CHOOSE j \in 1..Len(s) :
                              s[j] = c /\ \A h \in 1..(j - 1) : s[h] # c
                 IN SubSeq(s, 1, k - 1) \o SubSeq(s, k + 1, Len(s))
            ELSE s
    IN Trim(drop(drop(drop(l, "L"), "S"), "/"))

\* lines[i].replace("L", "").replace("S", "").replace("/", ""), then trim()
Denoise(l) == Trim(RemoveChar(RemoveChar(RemoveChar(l, "L"), "S"), "/"))

TerminalSuffixes ==
    { <<ZE, REN>>, <<YUAN>>, <<HU, SHI4>>, <<ZHI, PIAN, REN>>, <<SHI>>,
      <<GUAN>>, <<LV, SHI>>, <<YI, SHENG>>, <<GU, WEN>>, <<JIAO, SHI>>,
      <<JING, CHA>>, <<JING1, LI>>, <<DONG, SHI_>> }

EndsWithTerminalSuffix(line) == \E s \in TerminalSuffixes : EndsWith(line, s)

\* line.ends_with(GONG) && i + 1 < lines.len() && !lines[i + 1].contains(...)
\* (i counts from 1 here, from 0 in the code)
WorkerRule(lines, i, line) ==
    /\ EndsWith(line, <<GONG>>)
    /\ i < Len(lines)
    /\ ~Contains(lines[i + 1], <<JI, SHU, REN, YUAN>>)

ThreeDashes(line) == CountChar(line, "-") = 3

\* the condition of the if in the loop
Closes(lines, i, line) ==
    \/ line = <<>>
    \/ EndsWithTerminalSuffix(line)
    \/ WorkerRule(lines, i, line)
    \/ ThreeDashes(line)

FinalFlushDropped(buffer, res) == res

\* after the loop: if !buffer.is_empty() { result.push(buffer) }
FinalFlush(buffer, res) == IF buffer # <<>> THEN Append(res, buffer) ELSE res

\* the then branch after push_str: push a clone of a non-empty buffer, clear it
Emit(buffer, res) ==
    [buffer |-> <<>>, result |-> IF buffer # <<>> THEN Append(res, buffer) ELSE res]

RECURSIVE ConstructLoop(_, _, _, _)
ConstructLoop(lines, i, buffer, res) ==
    IF i > Len(lines) THEN FinalFlush(buffer, res)
    ELSE LET line == Denoise(lines[i]) IN
         IF Closes(lines, i, line)
         THEN LET e == Emit(buffer \o line, res)
              IN ConstructLoop(lines, i + 1, e.buffer, e.result)
         ELSE ConstructLoop(lines, i + 1, buffer \o line, res)

construct_lines(t) == ConstructLoop(FilteredLines(t), 1, <<>>, <<>>)


(***************************************************************************)
(* The initial state: nothing has been given to any function, and the      *)
(* tree is CategoryTree::new().                                            *)
(***************************************************************************)
\* CategoryTree::new(): children is an IndexMap, kept as the sequence of its
\* <<key, child>> entries in insertion order
NewTree == [children |-> <<>>, categories |-> <<>>]

Init ==
    /\ pc = "input"
    /\ text = <<>> /\ result = <<>> /\ again = <<>>
    /\ cell_first = <<>> /\ cell_second = <<>> /\ handed = <<>>
    /\ chunks = <<>> /\ categories = <<>>
    /\ ntext = <<>> /\ normalized = None
    /\ tree = NewTree /\ log = <<>>

(***************************************************************************)
(* construct_lines applied to a text of at most MaxLines + 1 lines, and    *)
(* then to its own output joined by '\n'.                                   *)
(***************************************************************************)
MaxLines == 2

LinePool ==
    { <<>>,
      <<"x">>,
      <<"x", YUAN>>,
      <<ZE>>,
      <<REN>>,
      <<"y", GONG>>,
      <<JI, SHU, REN, YUAN>>,
      <<JI, "L", SHU, REN, YUAN>>,
      <<"1", "-", "2", "-", "3", "-", "4">>,
      <<"1", "-", "2">>,
      <<SP, "L", "x", TAB, "S", "/">>,
      <<"L", "L", YUAN>>,
      <<SP>> }

TypeLine(l) ==
    /\ pc = "input"
    /\ CountChar(text, NL) < MaxLines
    /\ text' = text \o l \o <<NL>>
    /\ UNCHANGED <<pc, result, again, colsVars, parseVars, normVars, treeVars>>

TypeTail(l) ==
    /\ pc = "input"
    /\ text' = text \o l
    /\ pc' = "typed"
    /\ UNCHANGED <<result, again, colsVars, parseVars, normVars, treeVars>>

ConstructLines ==
    /\ pc = "typed"
    /\ result' = construct_lines(text)
    /\ pc' = "constructed"
    /\ UNCHANGED <<text, again, colsVars, parseVars, normVars, treeVars>>

ReconstructLines ==
    /\ pc = "constructed"
    /\ again' = construct_lines(Join(result, <<NL>>))
    /\ pc' = "reconstructed"
    /\ UNCHANGED <<text, result, colsVars, parseVars, normVars, treeVars>>

NextLines ==
    \/ \E l \in LinePool : TypeLine(l)
    \/ \E l \in LinePool : TypeTail(l)
    \/ ConstructLines
    \/ ReconstructLines

SpecLines == Init /\ [][NextLines]_vars

\* the lines as the loop sees them: whitespace and 'L', 'S', '/' removed
PreprocessedLines(t) ==
    LET ls == FilteredLines(t) IN [k \in 1..Len(ls) |-> Denoise(ls[k])]

\* line i of t is empty or satisfies the terminal heuristic
ClosesEntry(t, i) == Closes(FilteredLines(t), i, PreprocessedLines(t)[i])

\* the entries the text is cut into: one ends at each closing line and one at
\* the last line, each the concatenation of the lines since the previous
\* closing line; empty ones are not entries
ExpectedEntries(t) ==
    LET P == PreprocessedLines(t)
        n == Len(P)
        ends == {i \in 1..n : ClosesEntry(t, i) \/ i = n}
        start(i) == IF \E j \in 1..(i - 1) : ClosesEntry(t, j)
                    THEN 1 + CHOOSE j \in 1..(i - 1) :
                               /\ ClosesEntry(t, j)
                               /\ \A h \in (j + 1)..(i - 1) : ~ClosesEntry(t, h)
                    ELSE 1
        at == [i \in 1..n |->
                 IF i \in ends THEN Concat(SubSeq(P, start(i), i)) ELSE <<>>]
    IN SelectSeq(at, LAMBDA e : e # <<>>)

\* C3: construct_lines returns, in order, the concatenations of consecutive
\* preprocessed lines, an entry being closed exactly at each line that is
\* empty or terminal and once more at the end of the text; no returned entry
\* is empty, and the returned entries concatenated are the preprocessed
\* lines concatenated.
C3_ConstructLinesCutsAtClosers ==
    pc \in {"constructed", "reconstructed"} =>
        /\ result = ExpectedEntries(text)
        /\ \A k \in 1..Len(result) : result[k] # <<>>
        /\ Concat(result) = Concat(PreprocessedLines(text))

\* a text of three lines: a continuation merged into a terminal line, and an
\* unterminated last line emitted by the final flush
C3_Witness ==
    /\ pc = "constructed"
    /\ Len(Lines(text)) = 3
    /\ ~ClosesEntry(text, 1) /\ ClosesEntry(text, 2) /\ ~ClosesEntry(text, 3)
    /\ Len(result) = 2
    /\ result[1] = PreprocessedLines(text)[1] \o PreprocessedLines(text)[2]
    /\ PreprocessedLines(text)[1] # <<>>

\* every line is one logical entry: after preprocessing it ends in a token
\* of the terminal suffix catalogue or holds exactly three '-'
OneEntryPerLine(t) ==
    LET P == PreprocessedLines(t) IN
    /\ P # <<>>
    /\ \A k \in 1..Len(P) : EndsWithTerminalSuffix(P[k]) \/ ThreeDashes(P[k])

Zip(a, b) == [k \in 1..Min(Len(a), Len(b)) |-> <<a[k], b[k]>>]

\* format!("{} {}", a, b).trim().to_string(), kept when not empty
ConcatenatedLines(a, b) ==
    LET z == Zip(a, b)
        combined == [k \in 1..Len(z) |-> Trim(z[k][1] \o <<SP>> \o z[k][2])]
    IN SelectSeq(combined, LAMBDA c : c # <<>>)

PairSeparatorSpace == <<SP>>

\* concatenated_lines.join("\n\n\n")
PairSeparator == <<NL, NL, NL>>

\* the chunks parse_two_columns hands to parse_categories
TwoColumnChunks(first, second) ==
    construct_lines(
        Join(ConcatenatedLines(construct_lines(first), construct_lines(second)),
             PairSeparator))

MaxFirstLines == 3
MaxSecondLines == 2

CellLinePool ==
    { <<>>,
      <<"1", "-", "2", "-">>,
      <<"3", "-", "4">>,
      <<"x", YUAN>>,
      <<"y", GONG>> }

TypeFirstCell(l) ==
    /\ pc = "input"
    /\ CountChar(cell_first, NL) < MaxFirstLines
    /\ cell_first' = cell_first \o l \o <<NL>>
    /\ UNCHANGED <<pc, cell_second, handed, linesVars, parseVars, normVars, treeVars>>

FirstCellDone ==
    /\ pc = "input"
    /\ pc' = "second"
    /\ UNCHANGED <<colsVars, linesVars, parseVars, normVars, treeVars>>

TypeSecondCell(l) ==
    /\ pc = "second"
    /\ CountChar(cell_second, NL) < MaxSecondLines
    /\ cell_second' = cell_second \o l \o <<NL>>
    /\ UNCHANGED <<pc, cell_first, handed, linesVars, parseVars, normVars, treeVars>>

CombineColumns ==
    /\ pc = "second"
    /\ handed' = TwoColumnChunks(cell_first, cell_second)
    /\ pc' = "combined"
    /\ UNCHANGED <<cell_first, cell_second, linesVars, parseVars, normVars, treeVars>>

NextCols ==
    \/ \E l \in CellLinePool : TypeFirstCell(l)
    \/ FirstCellDone
    \/ \E l \in CellLinePool : TypeSecondCell(l)
    \/ CombineColumns

SpecCols == Init /\ [][NextCols]_vars

\* C9: the entries parse_two_columns hands to parse_categories are exactly
\* min(|A|, |B|) entries, the i-th being A[i] followed by B[i], where A and B
\* are construct_lines of the two cells: no pair is dropped, merged or split.
C9_PairsByIndex ==
    pc = "combined" =>
        LET A == construct_lines(cell_first)
            B == construct_lines(cell_second)
        IN /\ Len(handed) = Min(Len(A), Len(B))
           /\ \A i \in 1..Len(handed) : handed[i] = A[i] \o B[i]

\* the first cell has more entries than the second, two pairs are handed on,
\* and the first pair does not end its own line by the terminal heuristic
C9_Witness ==
    /\ pc = "combined"
    /\ Len(construct_lines(cell_first)) > Len(construct_lines(cell_second))
    /\ Len(handed) = 2
    /\ ~EndsWithTerminalSuffix(handed[1])
    /\ ~ThreeDashes(handed[1])
    /\ EndsWith(handed[1], <<GONG>>)


(***************************************************************************)
(* parse_categories.  The pattern is anchored at both ends, and every      *)
(* repetition in it is followed by something its own characters cannot     *)
(* start, so the match the regex engine reports is the one found by        *)
(* taking each repetition as far as it goes: a shorter id leaves a digit   *)
(* or '-' in front of the code and of the description, which then covers   *)
(* at least what it covered before.                                        *)
(***************************************************************************)
\* \s* from position i: the position after the whitespace
RECURSIVE SkipWhitespace(_, _)
SkipWhitespace(s, i) ==
    IF i <= Len(s) /\ IsWhitespace(s[i]) THEN SkipWhitespace(s, i + 1) ELSE i

\* \d* from position i: the position after the digits
RECURSIVE SkipDigits(_, _)
SkipDigits(s, i) ==
    IF i <= Len(s) /\ IsDigit(s[i]) THEN SkipDigits(s, i + 1) ELSE i

\* (?:\d+-?)+ from position i: the position after the last group (i when
\* there is no group)
RECURSIVE IdEnd(_, _)
IdEnd(s, i) ==
    LET j == SkipDigits(s, i) IN
    IF j = i THEN i
    ELSE IF j <= Len(s) /\ s[j] = "-" THEN IdEnd(s, j + 1)
    ELSE j

CharAt(s, i, c) == i <= Len(s) /\ s[i] = c

\* (?:\s*\(\s*(?P<code>GBM\s*\d+)\s*\))? from position i
CodeMatch(s, i) ==
    LET a == SkipWhitespace(s, i)
        b == SkipWhitespace(s, a + 1)
        c == SkipWhitespace(s, b + 3)
        d == SkipDigits(s, c)
        e == SkipWhitespace(s, d)
    IN IF /\ CharAt(s, a, "(")
          /\ CharAt(s, b, "G") /\ CharAt(s, b + 1, "B") /\ CharAt(s, b + 2, "M")
          /\ d > c
          /\ CharAt(s, e, ")")
       THEN [matched |-> TRUE, code |-> Some(SubSeq(s, b, d - 1)), next |-> e + 1]
       ELSE [matched |-> FALSE, code |-> None, next |-> i]

\* \s*(?P<desc>.*)?$ from position i: '.' matches no '\n' and '$' only the end
DescMatch(s, i) ==
    LET f == SkipWhitespace(s, i)
        d == SubSeq(s, f, Len(s))
    IN IF \A k \in 1..Len(d) : d[k] # NL
       THEN [matched |-> TRUE, desc |-> Some(d)]
       ELSE [matched |-> FALSE, desc |-> None]

\* re.captures(chunk): None, or the three groups
Captures(chunk) ==
    LET i0 == SkipWhitespace(chunk, 1)
        i1 == IdEnd(chunk, i0)
        cm == CodeMatch(chunk, i1)
        dm == DescMatch(chunk, cm.next)
    IN IF i1 > i0 /\ dm.matched
       THEN Some([id |-> SubSeq(chunk, i0, i1 - 1), code |-> cm.code, desc |-> dm.desc])
       ELSE None

\* m.as_str().replace(' ', "")
RemoveSpaces(s) == RemoveChar(s, SP)

\* the body of the for loop: the Category pushed for a chunk that matches
CategoryOf(cap) ==
    [id   |-> Trim(cap.id),
     code |-> IF cap.code = None THEN None ELSE Some(RemoveSpaces(cap.code[1])),
     desc |-> IF cap.desc = None THEN None ELSE Some(RemoveSpaces(cap.desc[1]))]

RECURSIVE parse_categories(_)
parse_categories(cs) ==
    IF cs = <<>> THEN <<>>
    ELSE LET cap == Captures(Head(cs)) IN
         (IF cap = None THEN <<>> ELSE <<CategoryOf(cap[1])>>)
             \o parse_categories(Tail(cs))

(***************************************************************************)
(* parse_categories applied to at most MaxChunks entries, each put         *)
(* together from a lead, an id part, a code part and a rest.               *)
(***************************************************************************)
MaxChunks == 2

LeadPool == { <<>>, <<SP>> }

IdPool == { <<>>, <<"1">>, <<"0", "1">>, <<"1", "-", "0", "1">>, <<"1", "-">> }

CodePool ==
    { <<>>,
      <<"(", "G", "B", "M", "1", ")">>,
      <<SP, "(", SP, "G", "B", "M", TAB, "1", SP, ")">>,
      <<"(", "G", "B", "1", ")">> }

RestPool ==
    { <<>>,
      <<"a">>,
      <<SP, "a", SP, "b">>,
      <<"a", TAB, "b">>,
      <<"a", NL, "b">> }

AddChunk(lead, idp, codep, rest) ==
    /\ pc = "input"
    /\ Len(chunks) < MaxChunks
    /\ chunks' = Append(chunks, lead \o idp \o codep \o rest)
    /\ UNCHANGED <<pc, categories, linesVars, colsVars, normVars, treeVars>>

ParseCategories ==
    /\ pc = "input"
    /\ categories' = parse_categories(chunks)
    /\ pc' = "parsed"
    /\ UNCHANGED <<chunks, linesVars, colsVars, normVars, treeVars>>

NextParse ==
    \/ \E lead \in LeadPool, idp \in IdPool, codep \in CodePool, rest \in RestPool :
           AddChunk(lead, idp, codep, rest)
    \/ ParseCategories

SpecParse == Init /\ [][NextParse]_vars


(***************************************************************************)
(* CategoryTree.  A node is [children, categories]; children, an IndexMap, *)
(* is the sequence of its [key, node] entries in insertion order.          *)
(***************************************************************************)
\* str::split('-'): one more piece than there are '-', empty pieces kept
RECURSIVE SplitFrom(_, _, _)
SplitFrom(s, cur, acc) ==
    IF s = <<>> THEN Append(acc, cur)
    ELSE IF Head(s) = "-" THEN SplitFrom(Tail(s), <<>>, Append(acc, cur))
    ELSE SplitFrom(Tail(s), Append(cur, Head(s)), acc)

SplitDashSkipEmpty(id) ==
    SelectSeq(SplitFrom(id, <<>>, <<>>), LAMBDA seg : seg # <<>>)

\* id.split('-').collect::<Vec<&str>>()
SplitDash(id) == SplitFrom(id, <<>>, <<>>)

\* IndexMap::get_index_of: the position of the key, 0 when absent
IndexOfKey(children, k) ==
    IF \E i \in 1..Len(children) : children[i].key = k
    THEN CHOOSE i \in 1..Len(children) : children[i].key = k
    ELSE 0

OrInsertReset(children, k) ==
    IF IndexOfKey(children, k) = 0
    THEN Append(children, [key |-> k, node |-> NewTree])
    ELSE [children EXCEPT ![IndexOfKey(children, k)].node = NewTree]

\* children.entry(level.to_string()).or_insert_with(CategoryTree::new)
OrInsertWith(children, k) ==
    IF IndexOfKey(children, k) = 0
    THEN Append(children, [key |-> k, node |-> NewTree])
    ELSE children

PushCategoryFront(cats, category) == <<category>> \o cats

\* node.categories.push(category)
PushCategory(cats, category) == Append(cats, category)

\* the walk of insert from a node down the rest of the path
RECURSIVE InsertAt(_, _, _)
InsertAt(node, path, category) ==
    IF path = <<>>
    THEN [node EXCEPT !.categories = PushCategory(@, category)]
    ELSE LET ch == OrInsertWith(node.children, Head(path))
             j  == IndexOfKey(ch, Head(path))
         IN [node EXCEPT !.children =
                [ch EXCEPT ![j].node = InsertAt(ch[j].node, Tail(path), category)]]

insert(t, id, category) == InsertAt(t, SplitDash(id), category)

\* for cat in parsed { self.insert(cat.id, cat.clone()) }
RECURSIVE InsertParsed(_, _)
InsertParsed(t, parsed) ==
    IF parsed = <<>> THEN t
    ELSE InsertParsed(insert(t, Head(parsed).id, Head(parsed)), Tail(parsed))

\* the insert calls parse_one_column and parse_two_columns make for parsed
CallsFor(parsed, caller) ==
    [k \in 1..Len(parsed) |->
        [id |-> parsed[k].id, category |-> parsed[k], by |-> caller]]

MaxInserts == 3

TreeIdPool ==
    { <<>>, <<"1">>, <<"1", "-", "1">>, <<"1", "-", "2">>, <<"1", "-">>, <<"-", "1">> }

OrderIdPool == { <<"1">>, <<"1", "-", "1">>, <<"1", "-", "2">>, <<"2">> }

CategoryPool ==
    { [id |-> <<"1", "-", "1">>, code |-> None, desc |-> Some(<<"a">>)],
      [id |-> <<"1">>, code |-> Some(<<"G", "B", "M", "1">>), desc |-> Some(<<"b">>)] }

OneColumnCellPool ==
    { <<"1", "-", "1", "a", YUAN, NL, "1", "-", "2", SP, "b">>,
      <<"1", "-", NL, "c">>,
      <<"x", NL, "1">> }

TwoColumnCellPool ==
    { << <<"1", "-", "2", NL, NL, "2">>, <<"a", NL, NL, "b", NL, NL, "c">> >>,
      << <<"x", YUAN>>, <<"1">> >> }

Insert(id, category) ==
    /\ pc = "input"
    /\ Len(log) < MaxInserts
    /\ tree' = insert(tree, id, category)
    /\ log' = Append(log, [id |-> id, category |-> category, by |-> "insert"])
    /\ UNCHANGED <<pc, linesVars, colsVars, parseVars, normVars>>

ParseOneColumn(cell_text) ==
    LET parsed == parse_categories(construct_lines(cell_text)) IN
    /\ pc = "input"
    /\ Len(log) + Len(parsed) <= MaxInserts
    /\ tree' = InsertParsed(tree, parsed)
    /\ log' = log \o CallsFor(parsed, "parse_one_column")
    /\ UNCHANGED <<pc, linesVars, colsVars, parseVars, normVars>>

ParseTwoColumns(first, second) ==
    LET parsed == parse_categories(TwoColumnChunks(first, second)) IN
    /\ pc = "input"
    /\ Len(log) + Len(parsed) <= MaxInserts
    /\ tree' = InsertParsed(tree, parsed)
    /\ log' = log \o CallsFor(parsed, "parse_two_columns")
    /\ UNCHANGED <<pc, linesVars, colsVars, parseVars, normVars>>

NextTree ==
    \/ \E id \in TreeIdPool, category \in CategoryPool : Insert(id, category)
    \/ \E cell \in OneColumnCellPool : ParseOneColumn(cell)
    \/ \E cells \in TwoColumnCellPool : ParseTwoColumns(cells[1], cells[2])

SpecTree == Init /\ [][NextTree]_vars

NextOrder == \E id \in OrderIdPool, category \in CategoryPool : Insert(id, category)

SpecOrder == Init /\ [][NextOrder]_vars


(***************************************************************************)
(* Properties of the tree.                                                 *)
(***************************************************************************)
IsPrefix(p, q) == Len(p) <= Len(q) /\ SubSeq(q, 1, Len(p)) = p

Keys(node) == [k \in 1..Len(node.children) |-> node.children[k].key]

\* the paths of the nodes of a tree, the root's being <<>>
RECURSIVE NodePaths(_)
NodePaths(node) ==
    {<<>>} \cup
    UNION { { <<node.children[k].key>> \o q : q \in NodePaths(node.children[k].node) } :
            k \in 1..Len(node.children) }

\* the node at a path of NodePaths
RECURSIVE NodeAt(_, _)
NodeAt(node, path) ==
    IF path = <<>> THEN node
    ELSE NodeAt(node.children[IndexOfKey(node.children, Head(path))].node, Tail(path))

\* the categories of the calls of lg whose id splits to path, in call order
CategoriesAt(lg, path) ==
    LET calls == SelectSeq(lg, LAMBDA e : SplitDash(e.id) = path)
    IN [k \in 1..Len(calls) |-> calls[k].category]

NodesFromIds ==
    \A p \in NodePaths(tree) \ {<<>>} :
        \E k \in 1..Len(log) : IsPrefix(p, SplitDash(log[k].id))

CategoriesInCallOrder ==
    /\ \A p \in NodePaths(tree) : NodeAt(tree, p).categories = CategoriesAt(log, p)
    /\ \A k \in 1..Len(log) : SplitDash(log[k].id) \in NodePaths(tree)

ParsedSitAtOwnId ==
    \A k \in 1..Len(log) :
        log[k].by # "insert" =>
            /\ log[k].id = log[k].category.id
            /\ SplitDash(log[k].category.id) \in NodePaths(tree)
            /\ \E j \in 1..Len(NodeAt(tree, SplitDash(log[k].category.id)).categories) :
                   NodeAt(tree, SplitDash(log[k].category.id)).categories[j]
                       = log[k].category

\* a step keeps every node, and every node's children and categories as a
\* prefix of what it has afterwards
NothingRemovedOrReordered ==
    \A p \in NodePaths(tree) :
        /\ p \in NodePaths(tree')
        /\ IsPrefix(Keys(NodeAt(tree, p)), Keys(NodeAt(tree', p)))
        /\ IsPrefix(NodeAt(tree, p).categories, NodeAt(tree', p).categories)

\* C1: after any sequence of inserts on a new tree, (1) every node but the
\* root has a path that is a prefix of the split segments of an inserted id,
\* (2) the categories of the node at path p are exactly the categories of
\* the calls whose id splits to p, in call order, (3) no step removes or
\* reorders an existing child or category, and the calls parse_one_column
\* and parse_two_columns make pass the category's own id, so each parsed
\* category sits at the node its own id addresses.
C1_TreeDeterminedByInsertions ==
    /\ [](NodesFromIds /\ CategoriesInCallOrder /\ ParsedSitAtOwnId)
    /\ [][NothingRemovedOrReordered]_vars

\* two categories on one node, a sibling created later, and a parsed
\* category whose id ends in '-' at the node keyed by the empty segment
C1_Witness ==
    /\ Len(log) = 3
    /\ <<"1">> \in NodePaths(tree)
    /\ Len(Keys(NodeAt(tree, <<"1">>))) = 2
    /\ \E p \in NodePaths(tree) : Len(NodeAt(tree, p).categories) = 2
    /\ \E k \in 1..3 :
           /\ log[k].by = "parse_one_column"
           /\ log[k].id = <<"1", "-">>
           /\ NodeAt(tree, <<<<"1">>, <<>>>>).categories # <<>>

\* C10: after any sequence of inserts with any ids, the empty id and ids
\* with a leading or trailing '-' included, the root's own category list is
\* empty: every id splits into at least one segment.
C10_RootHasNoCategories == tree.categories = <<>>

\* the empty id has been inserted, and its category is in the root's child
\* keyed by the empty segment
C10_Witness ==
    /\ \E k \in 1..Len(log) : log[k].id = <<>>
    /\ \E k \in 1..Len(log) : log[k].id = <<"-", "1">>
    /\ IndexOfKey(tree.children, <<>>) # 0
    /\ NodeAt(tree, <<<<>>>>).categories # <<>>

\* the tree a sequence of insert calls builds
RECURSIVE TreeOf(_)
TreeOf(lg) ==
    IF lg = <<>> THEN NewTree
    ELSE insert(TreeOf(SubSeq(lg, 1, Len(lg) - 1)), lg[Len(lg)].id, lg[Len(lg)].category)

Permutations(n) ==
    {f \in [1..n -> 1..n] : \A a, b \in 1..n : f[a] = f[b] => a = b}

Reordered(lg, f) == [k \in 1..Len(lg) |-> lg[f[k]]]

\* both orderings keep, for each id path, the order of its categories
KeepsPathOrder(lg1, lg2) ==
    \A k \in 1..Len(lg1) :
        CategoriesAt(lg1, SplitDash(lg1[k].id)) = CategoriesAt(lg2, SplitDash(lg1[k].id))

\* the same children keys at every node, in whatever order, and the same
\* categories in the same order at every node
RECURSIVE SameUpToSiblingOrder(_, _)
SameUpToSiblingOrder(a, b) ==
    /\ a.categories = b.categories
    /\ {a.children[k].key : k \in 1..Len(a.children)}
         = {b.children[k].key : k \in 1..Len(b.children)}
    /\ \A k \in 1..Len(a.children) :
           SameUpToSiblingOrder(a.children[k].node,
                                b.children[IndexOfKey(b.children, a.children[k].key)].node)

\* the original statement of C2: every reordering of the insert calls that
\* keeps each path's category order builds the same tree, children order
\* included
C2_Original_SameChildrenOrder ==
    \A f \in Permutations(Len(log)) :
        KeepsPathOrder(log, Reordered(log, f)) => TreeOf(Reordered(log, f)) = tree

\* C2 (amended): every reordering of the insert calls that keeps each path's
\* category order builds a tree with the same children keys at every node
\* and the same category order at every node; the order of the children of
\* a node is the order in which the segments were first inserted, and may
\* differ.
C2_SameUpToSiblingOrder ==
    \A f \in Permutations(Len(log)) :
        KeepsPathOrder(log, Reordered(log, f))
            => SameUpToSiblingOrder(TreeOf(Reordered(log, f)), tree)

\* three calls on three paths, in an order whose reversal keeps every
\* path's category order and yet lists the children of "1" the other way
C2_Witness ==
    /\ Len(log) = 3
    /\ Cardinality({SplitDash(log[k].id) : k \in 1..3}) = 3
    /\ <<"1">> \in NodePaths(tree)
    /\ Len(Keys(NodeAt(tree, <<"1">>))) = 2
    /\ TreeOf(Reordered(log, [k \in 1..3 |-> 4 - k])) # tree
    /\ SameUpToSiblingOrder(TreeOf(Reordered(log, [k \in 1..3 |-> 4 - k])), tree)


(***************************************************************************)
(* Properties of parse_categories.                                         *)
(***************************************************************************)
\* one or more groups of digits joined by '-'
DigitGroupsJoined(id) ==
    \A k \in 1..Len(SplitDash(id)) :
        /\ SplitDash(id)[k] # <<>>
        /\ \A j \in 1..Len(SplitDash(id)[k]) : IsDigit(SplitDash(id)[k][j])

\* the entry starts, after optional whitespace, with an id
StartsWithId(chunk) == TrimStart(chunk) # <<>> /\ IsDigit(Head(TrimStart(chunk)))

HasNoWhitespace(s) == \A k \in 1..Len(s) : ~IsWhitespace(s[k])

\* C5: the id of every record is one or more digit groups joined by '-' (it
\* neither ends with '-' nor splits into an empty segment), and it is the
\* literal leading text of its entry, leading zeros kept.
C5_IdIsDigitGroups ==
    pc = "parsed" =>
        \A k \in 1..Len(categories) :
            /\ DigitGroupsJoined(categories[k].id)
            /\ \E j \in 1..Len(chunks) : IsPrefix(categories[k].id, TrimStart(chunks[j]))

\* C6: the code (when present) and the description of every record hold no
\* whitespace character of any kind.
C6_NoWhitespaceInCodeAndDescription ==
    pc = "parsed" =>
        \A k \in 1..Len(categories) :
            /\ categories[k].code # None => HasNoWhitespace(categories[k].code[1])
            /\ categories[k].desc # None
            /\ HasNoWhitespace(categories[k].desc[1])

\* C7: parse_categories returns exactly one record for each entry that
\* starts (after optional whitespace) with an id and nothing for any other
\* entry, the records in the order of their entries.
C7_OneRecordPerIdEntry ==
    pc = "parsed" =>
        LET idEntries == SelectSeq(chunks, StartsWithId) IN
        /\ Len(categories) = Len(idEntries)
        /\ Len(categories) <= Len(chunks)
        /\ \A k \in 1..Len(categories) :
               IsPrefix(categories[k].id, TrimStart(idEntries[k]))

(***************************************************************************)
(* normalize_first_category.                                               *)
(***************************************************************************)
\* text.char_indices().find(|(_, c)| c.is_ascii_digit()): the position of
\* the first digit, 0 when there is none
FirstDigitIndex(t) ==
    IF \E k \in 1..Len(t) : IsDigit(t[k])
    THEN CHOOSE k \in 1..Len(t) : IsDigit(t[k]) /\ \A j \in 1..(k - 1) : ~IsDigit(t[j])
    ELSE 0

\* text.find(')'): the position of the first ')', 0 when there is none
FirstParenIndex(t) ==
    IF \E k \in 1..Len(t) : t[k] = ")"
    THEN CHOOSE k \in 1..Len(t) : t[k] = ")" /\ \A j \in 1..(k - 1) : t[j] # ")"
    ELSE 0

\* text.get(d..=p) for positions d and p of characters of the text: the
\* range d..p+1, which str::get refuses when its start is past its end
GetInclusive(t, d, p) == IF d <= p + 1 THEN Some(SubSeq(t, d, p)) ELSE None

normalize_first_category(t) ==
    LET d == FirstDigitIndex(t)
        p == FirstParenIndex(t)
        name == Trim(SubSeq(t, 1, d - 1))
        desc == Trim(SubSeq(t, p + 1, Len(t)))
        number == GetInclusive(t, d, p)
    IN IF d = 0 THEN None
       ELSE IF Len(name) = 0 THEN None
       ELSE IF p = 0 THEN None
       ELSE IF number = None THEN None
       ELSE Some(number[1] \o <<SP>> \o name \o desc)

MaxNormLen == 5

NormAlphabet == {"a", "1", "(", ")", SP}

TypeChar(c) ==
    /\ pc = "input"
    /\ Len(ntext) < MaxNormLen
    /\ ntext' = Append(ntext, c)
    /\ UNCHANGED <<pc, normalized, linesVars, colsVars, parseVars, treeVars>>

Normalize ==
    /\ pc = "input"
    /\ normalized' = normalize_first_category(ntext)
    /\ pc' = "normalized"
    /\ UNCHANGED <<ntext, linesVars, colsVars, parseVars, treeVars>>

NextNorm ==
    \/ \E c \in NormAlphabet : TypeChar(c)
    \/ Normalize

SpecNorm == Init /\ [][NextNorm]_vars

\* C8: normalize_first_category returns not applicable for a text with no
\* digit, with an empty name before the first digit or with no ')', and for
\* every other text block + one space + name + description, block being the
\* text from the first digit through the first ')'.
C8_NormalizedOrNotApplicable ==
    pc = "normalized" =>
        LET d == FirstDigitIndex(ntext)
            p == FirstParenIndex(ntext)
            block == SubSeq(ntext, d, p)
            name == Trim(SubSeq(ntext, 1, d - 1))
            desc == Trim(SubSeq(ntext, p + 1, Len(ntext)))
        IN IF d = 0 \/ name = <<>> \/ p = 0
           THEN normalized = None
           ELSE normalized = Some(block \o <<SP>> \o name \o desc)

=============================================================================
